---- MODULE Spec2Model ----
(***************************************************************************)
(* OpenPhotogrammetryToolkit: the file list widget (registry of file path  *)
(* objects, primary/secondary selection, directory reconcile) and the      *)
(* plugin host (load, instantiate, attach, start).                         *)
(***************************************************************************)
EXTENDS Integers, Sequences, FiniteSets, TLC

\* ------------------------------------------------------------------ bounds
MaxObjs == 3
MaxFsEdits == 2
MaxCandidates == 3
MaxListeners == 2
MaxMutations == 1
MaxInstances == 3

\* --------------------------------------------------------------- constants
\* Python's None for a selection slot (entry ids start at 1).
NoFPO == 0

IMAGE_EXTENSIONS == {".jpg", ".jpeg", ".png", ".gif", ".bmp", ".tiff", ".tif", ".ico"}

\* ------------------------------------------------------------- file system
\* A file name is a stem and a suffix; a path is a directory and a name.
NoName == [stem |-> "", ext |-> ""]
NoPath == <<"", NoName>>

NameA == [stem |-> "a", ext |-> ".jpg"]
NameB == [stem |-> "b", ext |-> ".PNG"]
NameC == [stem |-> "c", ext |-> ".txt"]
Names == {NameA, NameB, NameC}
Dirs == {"w", "x"}
\* paths os.listdir raises on: one that does not exist, one of a regular file
InvalidDirs == {"nodir", "w/a.jpg"}
Paths == Dirs \X Names

NoNode == [kind |-> "none", to |-> NoPath]
FileNode == [kind |-> "file", to |-> NoPath]
DirNode == [kind |-> "dir", to |-> NoPath]
LinkNode(t) == [kind |-> "link", to |-> t]

\* str.lower() on the suffixes used here
Lower(ext) == CASE ext = ".PNG" -> ".png"
                [] ext = ".JPG" -> ".jpg"
                [] OTHER -> ext

\* any(file_name.lower().endswith(ext) for ext in IMAGE_EXTENSIONS)
IsImageName(n) == \E e \in IMAGE_EXTENSIONS : Lower(n.ext) = e

Basename(p) == p[2]
Join(d, n) == <<d, n>>

IsLink(f, p) == p \in DOMAIN f /\ f[p].kind = "link"
RealPath(f, p) == IF IsLink(f, p) THEN f[p].to ELSE p
\* os.path.isfile follows symlinks
IsFile(f, p) == /\ p \in DOMAIN f
                /\ \/ f[p].kind = "file"
                   \/ /\ f[p].kind = "link"
                      /\ f[p].to \in DOMAIN f
                      /\ f[f[p].to].kind = "file"
ListDir(f, d) == {n \in Names : f[Join(d, n)].kind # "none"}

\* ---------------------------------------------------------------- helpers
Range(s) == {s[i] : i \in 1..Len(s)}
\* every order in which a set can be iterated
Orders(S) == {s \in [1..Cardinality(S) -> S] : \A i, j \in 1..Cardinality(S) : i # j => s[i] # s[j]}
RemoveAt(s, i) == [k \in 1..(Len(s) - 1) |-> IF k < i THEN s[k] ELSE s[k + 1]]

\* ------------------------------------------------------------------- state
VARIABLES
    fs,               \* the file system: Paths -> node
    fsEdits,          \* number of file system changes so far
    objs,             \* every _FilePathObject registered so far: id -> [file_path, label]
    curr_file_paths,  \* the registry dict, as its values (ids) in insertion order
    primary_sel,      \* _primary_sel: an id or NoFPO
    secondary_sel,    \* _secondary_sel: an id or NoFPO
    curr_folder_path, \* the directory last given to set_watched_directory
    watcher,          \* the directory the QFileSystemWatcher watches, "" when none
    call,             \* the last operation: [op, tgt, was, bc, raised]
    emitted,          \* the signals emitted by the last operation, in order
    delivered,        \* the slot invocations of the last operation, in order: [to, ev]
    seen,             \* per plugin the payload its primary_selection_changed and its
                      \* secondary_selection_changed were last invoked with
    subs              \* the slots connected to the two selection signals, in
                      \* the order of the connect() calls: [id, on]

wvars == <<fs, fsEdits, objs, curr_file_paths, primary_sel, secondary_sel,
           curr_folder_path, watcher, call, emitted, delivered, seen>>

\* setter arguments: an entry object, a label, or a path string
FpoArg(id) == [kind |-> "fpo", id |-> id, path |-> NoPath]
LabelArg(n) == [kind |-> "label", id |-> NoFPO, path |-> <<"", n>>]
PathArg(p) == [kind |-> "path", id |-> NoFPO, path |-> p]

Event(sig, p) == [sig |-> sig, arg |-> p]

\* The widget's mutable fields, threaded through the handlers.
WidgetState == [objs |-> objs, reg |-> curr_file_paths, prim |-> primary_sel,
                sec |-> secondary_sel, emitted |-> <<>>, raised |-> FALSE,
                delivered |-> <<>>, subs |-> subs]

Keys(st) == {st.objs[st.reg[i]].label : i \in 1..Len(st.reg)}
\* curr_file_paths[key]; only used when key \in Keys(st)
Lookup(st, key) == st.reg[CHOOSE i \in 1..Len(st.reg) : st.objs[st.reg[i]].label = key]

\* _FilePathObject.__init__ without the os.path.realpath of a symlink
FilePathObject_keeps_link_path(f, file_path) ==
    [ok |-> IsFile(f, file_path),
     file_path |-> file_path,
     label |-> Basename(file_path)]

\* _FilePathObject.__init__
FilePathObject(f, file_path) ==
    [ok |-> IsFile(f, file_path),
     file_path |-> IF IsLink(f, file_path) THEN RealPath(f, file_path) ELSE file_path,
     label |-> Basename(file_path)]

\* FilePathListWidget._add_fpo_to_view
add_fpo_to_view(st, fpo) ==
    IF fpo.label \notin Keys(st)
    THEN [st EXCEPT !.objs = Append(@, [file_path |-> fpo.file_path, label |-> fpo.label]),
                    !.reg = Append(@, Len(st.objs) + 1)]
    ELSE st

\* _remove_fpo_from_view emptying both slots when the entry removed is selected
remove_fpo_from_view_clears_both(st, id) ==
    IF st.objs[id].label \in Keys(st)
    THEN LET i == CHOOSE k \in 1..Len(st.reg) : st.objs[st.reg[k]].label = st.objs[id].label
         IN [st EXCEPT !.prim = IF id \in {st.prim, st.sec} THEN NoFPO ELSE @,
                       !.sec = IF id \in {st.prim, st.sec} THEN NoFPO ELSE @,
                       !.reg = RemoveAt(@, i)]
    ELSE st

\* _remove_fpo_from_view announcing the slot it clears
remove_fpo_from_view_signals(st, id) ==
    IF st.objs[id].label \in Keys(st)
    THEN LET i == CHOOSE k \in 1..Len(st.reg) : st.objs[st.reg[k]].label = st.objs[id].label
         IN [st EXCEPT !.prim = IF id = st.prim THEN NoFPO ELSE @,
                       !.sec = IF id # st.prim /\ id = st.sec THEN NoFPO ELSE @,
                       !.reg = RemoveAt(@, i),
                       !.emitted = IF id = st.prim
                                   THEN Append(@, Event("primarySelectionChanged", NoPath))
                                   ELSE IF id = st.sec
                                   THEN Append(@, Event("secondarySelectionChanged", NoPath))
                                   ELSE @]
    ELSE st

\* FilePathListWidget._remove_fpo_from_view
remove_fpo_from_view(st, id) ==
    IF st.objs[id].label \in Keys(st)
    THEN LET i == CHOOSE k \in 1..Len(st.reg) : st.objs[st.reg[k]].label = st.objs[id].label
         IN [st EXCEPT !.prim = IF id = st.prim THEN NoFPO ELSE @,
                       !.sec = IF id # st.prim /\ id = st.sec THEN NoFPO ELSE @,
                       !.reg = RemoveAt(@, i)]
    ELSE st

\* FilePathListWidget._file_added
file_added(st, f, file) ==
    LET fpo == FilePathObject(f, file)
    IN IF ~fpo.ok
       THEN [st EXCEPT !.raised = TRUE]
       ELSE [add_fpo_to_view(st, fpo) EXCEPT !.emitted = Append(@, Event("fileAdded", file))]

\* FilePathListWidget._file_removed
file_removed(st, file) ==
    IF Basename(file) \notin Keys(st)
    THEN [st EXCEPT !.raised = TRUE]
    ELSE [remove_fpo_from_view(st, Lookup(st, Basename(file)))
             EXCEPT !.emitted = Append(@, Event("fileRemoved", file))]

RECURSIVE AddAll(_, _, _)
AddAll(st, f, added) ==
    IF added = <<>> \/ st.raised THEN st
    ELSE AddAll(file_added(st, f, Head(added)), f, Tail(added))

RECURSIVE RemoveAll(_, _)
RemoveAll(st, removed) ==
    IF removed = <<>> \/ st.raised THEN st
    ELSE RemoveAll(file_removed(st, Head(removed)), Tail(removed))

ScanFiles(f, dir_path) == {Join(dir_path, n) : n \in {m \in ListDir(f, dir_path) : IsImageName(m)}}
RegPaths(st) == {st.objs[st.reg[i]].file_path : i \in 1..Len(st.reg)}

\* update_file with the loop over removed before the loop over added
update_file_removes_first(st, f, dir_path, added, removed) ==
    AddAll(RemoveAll(st, removed), f, added)

\* FilePathListWidget.update_file, for one iteration order of added and removed
update_file(st, f, dir_path, added, removed) ==
    RemoveAll(AddAll(st, f, added), removed)

\* "if os.path.isfile(x): x = os.path.basename(x)": a path string of an
\* existing file becomes its base name, any other string stays as it is
BasenameIfFile(f, sel) ==
    IF sel.kind = "path" /\ IsFile(f, sel.path) THEN LabelArg(Basename(sel.path)) ELSE sel

\* FilePathListWidget.get_fpo_from_current: the entry id, or NoFPO for None
\* (a path string that is not a file is no key of the dict)
get_fpo_from_current(st, f, path) ==
    LET key == BasenameIfFile(f, path)
    IN IF key.kind = "label" /\ Basename(key.path) \in Keys(st)
       THEN Lookup(st, Basename(key.path))
       ELSE NoFPO

\* the selection the setter works on: the object given, or the one looked up
Resolve(st, f, sel) ==
    IF sel.kind = "fpo" THEN sel.id ELSE get_fpo_from_current(st, f, BasenameIfFile(f, sel))

RECURSIVE set_primary_selection(_, _, _, _)
RECURSIVE set_secondary_selection(_, _, _, _)

\* what the selection slots of a plugin do: the base classes' slots pass; a
\* plugin may override them, here with a primary_selection_changed that makes
\* the first file of get_all_files() the secondary selection
SlotKinds == {"pass", "reselect"}

\* one slot is invoked for a signal
slot(st, f, s, ev) ==
    LET handler == IF ev.sig = "primarySelectionChanged" THEN s.primary ELSE s.secondary
        st1 == [st EXCEPT !.delivered = Append(@, [to |-> s.id, ev |-> ev, slot |-> handler])]
    IN IF s.on = "reselect" /\ handler = "primary_selection_changed" /\ st.reg # <<>>
       THEN set_secondary_selection(st1, f, FpoArg(st.reg[1]), TRUE)
       ELSE st1

\* the connected slots run one after the other
RECURSIVE Dispatch(_, _, _, _)
Dispatch(st, f, conns, ev) ==
    IF conns = <<>> THEN st
    ELSE Dispatch(slot(st, f, Head(conns), ev), f, Tail(conns), ev)

\* Signal.emit on a selection signal: the connections are direct, so every
\* connected slot has run, in connection order, when emit returns
emit(st, f, ev) ==
    Dispatch([st EXCEPT !.emitted = Append(@, ev)], f, st.subs, ev)

\* set_primary_selection without "if selection is self._secondary_sel: self._secondary_sel = None"
set_primary_selection_keeps_secondary(st, f, sel, bc) ==
    LET fpo == Resolve(st, f, sel)
    IN IF fpo = st.prim THEN st
       ELSE IF fpo = NoFPO
            THEN [st EXCEPT !.raised = TRUE]
            ELSE LET st1 == [st EXCEPT !.prim = fpo]
                 IN IF bc THEN emit(st1, f, Event("primarySelectionChanged", st.objs[fpo].file_path)) ELSE st1

\* set_primary_selection without "if selection is self._primary_sel: return"
set_primary_selection_no_return(st, f, sel, bc) ==
    LET fpo == Resolve(st, f, sel)
    IN IF fpo = NoFPO
       THEN [st EXCEPT !.raised = TRUE]
       ELSE LET st1 == [st EXCEPT !.sec = IF fpo = st.sec THEN NoFPO ELSE @, !.prim = fpo]
            IN IF bc THEN emit(st1, f, Event("primarySelectionChanged", st.objs[fpo].file_path)) ELSE st1

\* set_primary_selection emitting the entry's label in place of its file_path
set_primary_selection_emits_label(st, f, sel, bc) ==
    LET fpo == Resolve(st, f, sel)
    IN IF fpo = st.prim THEN st
       ELSE IF fpo = NoFPO
            THEN [st EXCEPT !.raised = TRUE]
            ELSE LET st1 == [st EXCEPT !.sec = IF fpo = st.sec THEN NoFPO ELSE @, !.prim = fpo]
                 IN IF bc THEN emit(st1, f, Event("primarySelectionChanged", <<"", st.objs[fpo].label>>)) ELSE st1

\* FilePathListWidget.set_primary_selection. The object given is used as it
\* is; a string is looked up, and a string that names no entry gives None:
\* "None is self._primary_sel" returns when nothing is selected, otherwise
\* None.change_style_primary() raises before any slot is assigned.
set_primary_selection(st, f, sel, bc) ==
    LET fpo == Resolve(st, f, sel)
    IN IF fpo = st.prim THEN st
       ELSE IF fpo = NoFPO
            THEN [st EXCEPT !.raised = TRUE]
            ELSE LET st1 == [st EXCEPT !.sec = IF fpo = st.sec THEN NoFPO ELSE @, !.prim = fpo]
                 IN IF bc THEN emit(st1, f, Event("primarySelectionChanged", st.objs[fpo].file_path)) ELSE st1

\* set_secondary_selection that also announces the primary slot it empties
set_secondary_selection_signals_eviction(st, f, sel, bc) ==
    LET fpo == Resolve(st, f, sel)
    IN IF fpo = st.sec THEN st
       ELSE IF fpo = NoFPO
            THEN [st EXCEPT !.raised = TRUE]
            ELSE LET st1 == [st EXCEPT !.prim = IF fpo = st.prim THEN NoFPO ELSE @, !.sec = fpo]
                     st2 == IF bc /\ fpo = st.prim
                            THEN emit(st1, f, Event("primarySelectionChanged", st.objs[fpo].file_path))
                            ELSE st1
                 IN IF bc THEN emit(st2, f, Event("secondarySelectionChanged", st.objs[fpo].file_path)) ELSE st2

\* FilePathListWidget.set_secondary_selection
set_secondary_selection(st, f, sel, bc) ==
    LET fpo == Resolve(st, f, sel)
    IN IF fpo = st.sec THEN st
       ELSE IF fpo = NoFPO
            THEN [st EXCEPT !.raised = TRUE]
            ELSE LET st1 == [st EXCEPT !.prim = IF fpo = st.prim THEN NoFPO ELSE @, !.sec = fpo]
                 IN IF bc THEN emit(st1, f, Event("secondarySelectionChanged", st.objs[fpo].file_path)) ELSE st1

\* FilePathListWidget.intialize_file_list, for one os.listdir order
RECURSIVE InitAll(_, _, _)
InitAll(st, f, paths) ==
    IF paths = <<>> \/ st.raised THEN st
    ELSE LET fpo == FilePathObject(f, Head(paths))
         IN IF ~fpo.ok THEN [st EXCEPT !.raised = TRUE]
            ELSE InitAll(add_fpo_to_view(st, fpo), f, Tail(paths))

intialize_file_list(st, f, paths) ==
    LET r == InitAll(st, f, paths)
    IN IF r.raised THEN r
       ELSE [r EXCEPT !.emitted = Append(@, Event("watcherInitialized", NoPath))]

\* _allFiles with its test the wrong way round
get_all_files_inverted(st, given, excluded) ==
    IF given /\ excluded # {}
    THEN st.reg
    ELSE SelectSeq(st.reg, LAMBDA x : x \notin excluded)

\* PluginActionBase.get_all_files / PluginWidgetBase.get_all_files: excluded
\* is None (given = FALSE) or a list, of which only the membership test is
\* used; "if not exlude" takes None and the empty list alike
get_all_files(st, given, excluded) ==
    IF ~given \/ excluded = {}
    THEN st.reg
    ELSE SelectSeq(st.reg, LAMBDA x : x \notin excluded)

\* -------------------------------------------------------------- plugin host
VARIABLES
    hpc,             \* where OPTMainWindow.start is: idle, load, instantiate, add_view,
                     \* start_plugins, done, aborted (an exception left start)
    idx,             \* the loop index of the running phase
    status,          \* per discovered candidate: discovered, loaded, import_failed,
                     \* entry_missing, ctor_failed, instantiated
    plugin_files,    \* self.plugin_files: the candidates whose module was imported
    loaded_plugins,  \* self.loaded_plugins: instance ids in instantiation order
    insts,           \* every plugin instance: id -> [cand, kind, identifier, start, slots]
    plugins,         \* per instance its .plugins attribute: [set, list, ref]; set = FALSE
                     \* is None, ref names the list object that list is the content of
    started,         \* the start() invocations so far: [inst, plugins, raised]
    docks,           \* the dock widgets added to the main window, in order
    plugin_dir,      \* PLUGIN_DIR as load_plugins met it: [exists, files, found], found
                     \* being what find_files_by_type returned
    menu             \* the menu bar: its menus and actions in the order they were
                     \* added, each with the node it was added to (MenuBar or a menu)

hvars == <<hpc, idx, status, plugin_files, loaded_plugins, insts, plugins, started, docks, menu,
           plugin_dir,
           subs>>

vars == <<fs, fsEdits, objs, curr_file_paths, primary_sel, secondary_sel,
          curr_folder_path, watcher, call, emitted, delivered, seen,
          hpc, idx, status, plugin_files, loaded_plugins, insts, plugins, started, docks, menu,
          plugin_dir, subs>>

\* an identifier, split on "/"
Identifiers == {<<"Tool">>, <<"File", "Export", "CSV">>, <<"File", "Export", "JSON">>}

\* the plugin classes a candidate file can define: a Widget or an Action, with
\* start() left as the base class has it, overridden, or overridden and failing
PluginClasses == {[kind |-> "Widget", start |-> "default", slots |-> "pass"],
                  [kind |-> "Widget", start |-> "override", slots |-> "pass"],
                  [kind |-> "Widget", start |-> "override", slots |-> "reselect"],
                  [kind |-> "Action", start |-> "default", slots |-> "pass"],
                  [kind |-> "Action", start |-> "raises", slots |-> "pass"]}

\* the classes whose own constructor goes on after the base class constructor
\* and may raise there
FailingClasses == {cls \in PluginClasses : cls.kind = "Widget" /\ cls.start = "override"}

\* the files below PLUGIN_DIR: a base name is a number that stands for its
\* place in the order of strings; the plugin file k lies in PLUGIN_DIR itself
\* when k is odd and in a directory below it when k is even
PluginFile(k) == [dir |-> IF k % 2 = 0 THEN "sub" ELSE "", base |-> k, ext |-> "py"]
OtherFile == [dir |-> "", base |-> 0, ext |-> "txt"]

\* list.sort(key=basename), a stable sort: f goes behind every element whose
\* key is not greater
InsertByBase(sorted, f) ==
    LET n == Cardinality({i \in 1..Len(sorted) : sorted[i].base <= f.base})
    IN SubSeq(sorted, 1, n) \o <<f>> \o SubSeq(sorted, n + 1, Len(sorted))
RECURSIVE SortByBase(_)
SortByBase(files) ==
    IF files = <<>> THEN <<>>
    ELSE InsertByBase(SortByBase(SubSeq(files, 1, Len(files) - 1)), files[Len(files)])

\* find_files_by_type leaving the files in the order of os.walk
find_files_by_type_unsorted(exists, walk, file_type, sort) ==
    IF ~exists THEN <<>>
    ELSE SelectSeq(walk, LAMBDA f : f.ext = file_type)

\* find_files_by_type: walk is the order in which os.walk yields the files
\* of the directory and of the directories below it
find_files_by_type(exists, walk, file_type, sort) ==
    IF ~exists THEN <<>>
    ELSE LET matched_files == SelectSeq(walk, LAMBDA f : f.ext = file_type)
         IN IF sort THEN SortByBase(matched_files) ELSE matched_files

\* PluginWidgetBase.start raises NotImplementedError, PluginActionBase.start passes
StartRaises(inst) ==
    \/ inst.start = "raises"
    \/ inst.start = "default" /\ inst.kind = "Widget"

\* _register_plugin putting the new connection before the earlier ones
register_plugin_prepends(conns, id, cls) ==
    <<[id |-> id, on |-> cls.slots, primary |-> "primary_selection_changed",
       secondary |-> "secondary_selection_changed"]>> \o conns

\* _register_plugin connecting each signal to the slot meant for the other
register_plugin_crossed(conns, id, cls) ==
    Append(conns, [id |-> id, on |-> cls.slots, primary |-> "secondary_selection_changed",
                   secondary |-> "primary_selection_changed"])

\* _register_plugin: the plugin's two selection slots are connected, each to
\* the signal of its name, after the slots connected before
register_plugin(conns, id, cls) ==
    Append(conns, [id |-> id, on |-> cls.slots, primary |-> "primary_selection_changed",
                   secondary |-> "secondary_selection_changed"])

\* PluginActionBase.__init__ / PluginWidgetBase.__init__ on a plugin class
NewInstance(cand, cls, identifier) ==
    [cand |-> cand, kind |-> cls.kind, identifier |-> identifier,
     start |-> cls.start, slots |-> cls.slots]

\* the sibling list filtered by identifier in place of identity
SiblingsOf_by_identifier(lp, plugin) ==
    SelectSeq(lp, LAMBDA p : insts[p].identifier # insts[plugin].identifier)

\* [p for p in self.loaded_plugins if p is not plugin]
SiblingsOf(lp, plugin) == SelectSeq(lp, LAMBDA p : p # plugin)

\* list objects: the one self.loaded_plugins is bound to, and none
MasterList == 0
NoList == -1

\* "plugin.plugins = self.loaded_plugins": the host's own list is handed out
NewList_is_master(plugin) == MasterList

\* the list comprehension of start_plugins evaluates to a new list object
\* each time; the one made for a plugin is named by that plugin
NewList(plugin) == plugin

\* the parent of what is added to the menu bar itself
MenuBar == 0
MenuNode(parent, title) == [parent |-> parent, kind |-> "menu", title |-> title, inst |-> 0]
ActionNode(parent, title, inst) == [parent |-> parent, kind |-> "action", title |-> title, inst |-> inst]

\* "for menu_action in current_menu.actions(): menu = menu_action.menu(); if
\* menu and menu.title() == part": the first submenu of cur with that title,
\* MenuBar when there is none
FindMenu(m, cur, part) ==
    LET hits == {k \in 1..Len(m) : m[k].parent = cur /\ m[k].kind = "menu" /\ m[k].title = part}
    IN IF hits = {} THEN MenuBar ELSE CHOOSE k \in hits : \A h \in hits : k <= h

\* the loop over parts[:-1] with a submenu added for every part
RECURSIVE WalkParts_always_adds(_, _, _)
WalkParts_always_adds(m, cur, parts) ==
    IF parts = <<>> THEN [m |-> m, cur |-> cur]
    ELSE WalkParts_always_adds(Append(m, MenuNode(cur, Head(parts))), Len(m) + 1, Tail(parts))

\* the loop over parts[:-1] of add_action: the submenu is found or added
RECURSIVE WalkParts(_, _, _)
WalkParts(m, cur, parts) ==
    IF parts = <<>> THEN [m |-> m, cur |-> cur]
    ELSE LET found == FindMenu(m, cur, Head(parts))
         IN IF found # MenuBar
            THEN WalkParts(m, found, Tail(parts))
            ELSE WalkParts(Append(m, MenuNode(cur, Head(parts))), Len(m) + 1, Tail(parts))

\* add_action that never looks for an existing submenu
add_action_always_adds(m, inst, identifier) ==
    LET n == Len(identifier)
        w == WalkParts_always_adds(m, MenuBar, SubSeq(identifier, 1, n - 1))
    IN Append(w.m, ActionNode(w.cur, identifier[n], inst))

\* OPTMainWindow.add_action: an identifier of one part goes to the menu bar,
\* otherwise every submenu on the way is found or created and the action is
\* added to the deepest one; the action's text is the last part
add_action(m, inst, identifier) ==
    LET n == Len(identifier)
    IN IF n = 1
       THEN Append(m, ActionNode(MenuBar, identifier[1], inst))
       ELSE LET w == WalkParts(m, MenuBar, SubSeq(identifier, 1, n - 1))
            IN Append(w.m, ActionNode(w.cur, identifier[n], inst))

\* ----------------------------------------------------------------- actions
\* a plugin that no selection signal has reached yet
Unseen == [primary |-> NoPath, secondary |-> NoPath]

\* a slot keeping the payload it is invoked with, as SelectionViewer's slots
\* do in primary_selection_file_path and secondary_selection_file_path
Keep(sn, d) ==
    IF d.slot = "primary_selection_changed"
    THEN [sn EXCEPT ![d.to].primary = d.ev.arg]
    ELSE [sn EXCEPT ![d.to].secondary = d.ev.arg]

RECURSIVE KeepAll(_, _)
KeepAll(sn, ds) == IF ds = <<>> THEN sn ELSE KeepAll(Keep(sn, Head(ds)), Tail(ds))

Commit(st, c) ==
    /\ seen' = KeepAll([i \in 1..Len(st.subs) |-> IF i <= Len(seen) THEN seen[i] ELSE Unseen],
                       st.delivered)
    /\ objs' = st.objs
    /\ curr_file_paths' = st.reg
    /\ primary_sel' = st.prim
    /\ secondary_sel' = st.sec
    /\ emitted' = st.emitted
    /\ delivered' = st.delivered
    /\ call' = [c EXCEPT !.raised = st.raised]

\* the slot an entry is in
Role(fpo) ==
    IF fpo = NoFPO THEN "none"
    ELSE IF fpo = primary_sel THEN "primary"
    ELSE IF fpo = secondary_sel THEN "secondary"
    ELSE "none"

\* op: the operation; tgt: the entry a setter's argument denoted (NoFPO when
\* none); was: the slot tgt was in when the operation began; bc:
\* broadcast_change; raised: the operation ended with an exception; prim0,
\* sec0: the slots when a reconcile began; given, excluded, returned: the
\* argument and the result of a get_all_files call
Call(op, tgt, bc) == [op |-> op, tgt |-> tgt, was |-> Role(tgt), bc |-> bc, raised |-> FALSE,
                      prim0 |-> NoFPO, sec0 |-> NoFPO,
                      given |-> FALSE, excluded |-> {}, returned |-> <<>>]

SetterArgs == {FpoArg(i) : i \in 1..Len(objs)}
              \cup {LabelArg(n) : n \in Names}
              \cup {PathArg(p) : p \in {q \in Paths : q[2] = NameA}}

SetPrimary ==
    /\ \E sel \in SetterArgs, bc \in BOOLEAN :
          Commit(set_primary_selection(WidgetState, fs, sel, bc),
                 Call("set_primary", Resolve(WidgetState, fs, sel), bc))
    /\ UNCHANGED <<fs, fsEdits, curr_folder_path, watcher>>
    /\ UNCHANGED hvars

SetSecondary ==
    /\ \E sel \in SetterArgs, bc \in BOOLEAN :
          Commit(set_secondary_selection(WidgetState, fs, sel, bc),
                 Call("set_secondary", Resolve(WidgetState, fs, sel), bc))
    /\ UNCHANGED <<fs, fsEdits, curr_folder_path, watcher>>
    /\ UNCHANGED hvars

\* the directoryChanged callback of the installed watcher
UpdateFile ==
    /\ watcher # ""
    /\ LET files == ScanFiles(fs, watcher)
           fpos == RegPaths(WidgetState)
       IN /\ Len(objs) + Cardinality(files \ fpos) <= MaxObjs
          /\ \E added \in Orders(files \ fpos), removed \in Orders(fpos \ files) :
                Commit(update_file(WidgetState, fs, watcher, added, removed),
                       [Call("update_file", NoFPO, TRUE) EXCEPT !.prim0 = primary_sel,
                                                                !.sec0 = secondary_sel])
    /\ UNCHANGED <<fs, fsEdits, curr_folder_path, watcher>>
    /\ UNCHANGED hvars

\* set_watched_directory creating the QFileSystemWatcher before the scan
set_watched_directory_watches_first(d) ==
    /\ IF d \in Dirs
       THEN /\ Len(objs) + Cardinality(ScanFiles(fs, d)) <= MaxObjs
            /\ \E paths \in Orders(ScanFiles(fs, d)) :
                  Commit(intialize_file_list(WidgetState, fs, paths),
                         Call("set_watched_directory", NoFPO, TRUE))
       ELSE Commit([WidgetState EXCEPT !.raised = TRUE],
                   Call("set_watched_directory", NoFPO, TRUE))
    /\ watcher' = d
    /\ curr_folder_path' = d
    /\ UNCHANGED <<fs, fsEdits>>

\* FilePathListWidget.set_watched_directory, once the scan order is chosen;
\* os.listdir raises for a path that is no directory, and an exception in
\* intialize_file_list leaves before the watcher is created
set_watched_directory(d) ==
    /\ IF d \in Dirs
       THEN /\ Len(objs) + Cardinality(ScanFiles(fs, d)) <= MaxObjs
            /\ \E paths \in Orders(ScanFiles(fs, d)) :
                  LET st == intialize_file_list(WidgetState, fs, paths)
                  IN /\ Commit(st, Call("set_watched_directory", NoFPO, TRUE))
                     /\ watcher' = IF st.raised THEN watcher ELSE d
       ELSE /\ Commit([WidgetState EXCEPT !.raised = TRUE],
                      Call("set_watched_directory", NoFPO, TRUE))
            /\ watcher' = watcher
    /\ curr_folder_path' = d
    /\ UNCHANGED <<fs, fsEdits>>

\* OPTMainWindow.start is the one caller of set_watched_directory
SetWatchedDirectory ==
    /\ curr_folder_path = ""
    /\ \E d \in Dirs : set_watched_directory(d)
    /\ UNCHANGED hvars

\* set_watched_directory called whenever a directory is chosen, also again
Rewatch ==
    /\ \E d \in Dirs \cup InvalidDirs : set_watched_directory(d)
    /\ UNCHANGED hvars

\* what the environment may put at each path: regular files anywhere, a
\* directory with an image name, and a symlink into the other directory
FsOptions(p) ==
    CASE p = <<"w", NameA>> -> {NoNode, FileNode, DirNode}
      [] p = <<"w", NameB>> -> {NoNode, FileNode, LinkNode(<<"x", NameA>>), LinkNode(<<"x", NameB>>)}
      [] p[2] = NameC -> {}
      [] OTHER -> {NoNode, FileNode}

\* the environment changes one path of the file system
FsChange ==
    /\ fsEdits < MaxFsEdits
    /\ hpc \in {"idle", "done", "aborted"}
    /\ \E p \in Paths :
          \E node \in FsOptions(p) :
              /\ node # fs[p]
              /\ fs' = [fs EXCEPT ![p] = node]
    /\ fsEdits' = fsEdits + 1
    /\ call' = Call("fs", NoFPO, FALSE)
    /\ emitted' = <<>>
    /\ delivered' = <<>>
    /\ UNCHANGED <<objs, curr_file_paths, primary_sel, secondary_sel, curr_folder_path, watcher>>
    /\ UNCHANGED hvars
    /\ UNCHANGED seen

\* OPTMainWindow.start up to load_plugins: the directory is handed to the file
\* list widget, then the plugin directory is searched
HostStart ==
    /\ hpc = "idle"
    /\ \E d \in Dirs : set_watched_directory(d)
    /\ \E exists \in BOOLEAN, names \in SUBSET (1..MaxCandidates) :
          LET files == IF exists THEN {PluginFile(k) : k \in names} \cup {OtherFile} ELSE {}
          IN \E top \in Orders({f \in files : f.dir = ""}),
                sub \in Orders({f \in files : f.dir = "sub"}) :
                LET found == find_files_by_type(exists, top \o sub, "py", TRUE)
                IN /\ plugin_dir' = [exists |-> exists, files |-> files, found |-> found]
                   /\ status' = [c \in 1..Len(found) |-> "discovered"]
                   /\ hpc' = IF call'.raised THEN "aborted" ELSE "load"
    /\ idx' = 1
    /\ UNCHANGED <<plugin_files, loaded_plugins, insts, plugins, started, docks, menu, subs>>

\* OPTMainWindow.start called once more after it has returned: nothing in
\* start resets self.plugin_files or self.loaded_plugins, the plugin directory
\* is searched again and the four loops run again over the lists as they are
HostRestart ==
    /\ hpc = "done"
    /\ Len(plugin_files) = Len(plugin_dir.found)
    /\ Len(insts) + 2 * Len(plugin_dir.found) <= MaxInstances
    /\ \E d \in Dirs : set_watched_directory(d)
    /\ \E top \in Orders({f \in plugin_dir.files : f.dir = ""}),
          sub \in Orders({f \in plugin_dir.files : f.dir = "sub"}) :
          LET found == find_files_by_type(plugin_dir.exists, top \o sub, "py", TRUE)
          IN /\ plugin_dir' = [plugin_dir EXCEPT !.found = found]
             /\ status' = [c \in 1..Len(found) |-> "discovered"]
             /\ hpc' = IF call'.raised THEN "aborted" ELSE "load"
    /\ idx' = 1
    /\ UNCHANGED <<plugin_files, loaded_plugins, insts, plugins, started, docks, menu, subs>>

\* one turn of the loop of OPTMainWindow.load_plugins: import_module returns
\* the module or raises, and nothing in load_plugins or start catches it
LoadStep ==
    /\ hpc = "load"
    /\ idx <= Len(status)
    /\ \E imported \in BOOLEAN :
          IF imported
          THEN /\ plugin_files' = Append(plugin_files, idx)
               /\ status' = [status EXCEPT ![idx] = "loaded"]
               /\ idx' = idx + 1
               /\ hpc' = hpc
          ELSE /\ status' = [status EXCEPT ![idx] = "import_failed"]
               /\ hpc' = "aborted"
               /\ UNCHANGED <<plugin_files, idx>>
    /\ UNCHANGED <<loaded_plugins, insts, plugins, started, docks, menu, subs>>
    /\ UNCHANGED wvars
    /\ UNCHANGED plugin_dir

\* one turn of the loop of OPTMainWindow.instantiate_plugins: get_class_name
\* is called outside the try block, the constructor inside it
InstantiateStep ==
    /\ hpc = "instantiate"
    /\ idx <= Len(plugin_files)
    /\ LET cand == plugin_files[idx]
       IN \/ \* the module has no attribute named like its file: AttributeError
             /\ status' = [status EXCEPT ![cand] = "entry_missing"]
             /\ hpc' = "aborted"
             /\ UNCHANGED <<idx, loaded_plugins, insts, plugins, subs>>
          \/ \* the constructor raises before the base class constructor has
             \* run: caught, the loop continues
             /\ status' = [status EXCEPT ![cand] = "ctor_failed"]
             /\ idx' = idx + 1
             /\ UNCHANGED <<hpc, loaded_plugins, insts, plugins, subs>>
          \/ \* the constructor raises after the base class constructor has
             \* returned: the object is a child of the main window with its
             \* slots connected, and the except clause only logs
             \E cls \in FailingClasses :
                /\ insts' = Append(insts, NewInstance(cand, cls, <<"Tool">>))
                /\ subs' = register_plugin(subs, Len(insts) + 1, cls)
                /\ plugins' = Append(plugins, [set |-> FALSE, list |-> <<>>, ref |-> NoList])
                /\ status' = [status EXCEPT ![cand] = "ctor_failed"]
                /\ idx' = idx + 1
                /\ UNCHANGED <<hpc, loaded_plugins>>
          \/ \* the constructor returns
             \E cls \in PluginClasses, identifier \in Identifiers :
                /\ insts' = Append(insts, NewInstance(cand, cls, identifier))
                /\ subs' = register_plugin(subs, Len(insts) + 1, cls)
                /\ plugins' = Append(plugins, [set |-> FALSE, list |-> <<>>, ref |-> NoList])
                /\ loaded_plugins' = Append(loaded_plugins, Len(insts) + 1)
                /\ status' = [status EXCEPT ![cand] = "instantiated"]
                /\ idx' = idx + 1
                /\ hpc' = hpc
    /\ UNCHANGED <<plugin_files, started, docks, menu>>
    /\ UNCHANGED wvars
    /\ UNCHANGED plugin_dir

\* one turn of the loop of OPTMainWindow.add_plugins_to_view
AddToViewStep ==
    /\ hpc = "add_view"
    /\ idx <= Len(loaded_plugins)
    /\ LET plugin == loaded_plugins[idx]
       IN IF insts[plugin].kind = "Widget"
          THEN /\ docks' = Append(docks, plugin)
               /\ menu' = menu
          ELSE /\ menu' = add_action(menu, plugin, insts[plugin].identifier)
               /\ docks' = docks
    /\ idx' = idx + 1
    /\ UNCHANGED <<hpc, status, plugin_files, loaded_plugins, insts, plugins, started, subs>>
    /\ UNCHANGED wvars
    /\ UNCHANGED plugin_dir

\* start() called on each plugin as soon as instantiate_plugins has built it
StartStep_while_instantiating ==
    /\ hpc = "instantiate"
    /\ loaded_plugins # <<>>
    /\ LET plugin == loaded_plugins[Len(loaded_plugins)]
           sib == SiblingsOf(loaded_plugins, plugin)
       IN /\ \A k \in 1..Len(started) : started[k].inst # plugin
          /\ plugins' = [plugins EXCEPT ![plugin] = [set |-> TRUE, list |-> sib, ref |-> NewList(plugin)]]
          /\ started' = Append(started, [inst |-> plugin, plugins |-> sib,
                                         raised |-> StartRaises(insts[plugin])])
          /\ hpc' = IF StartRaises(insts[plugin]) THEN "aborted" ELSE hpc
    /\ UNCHANGED <<idx, status, plugin_files, loaded_plugins, insts, docks, menu, subs>>
    /\ UNCHANGED wvars
    /\ UNCHANGED plugin_dir

\* one turn of the loop of OPTMainWindow.start_plugins
StartStep ==
    /\ hpc = "start_plugins"
    /\ idx <= Len(loaded_plugins)
    /\ LET plugin == loaded_plugins[idx]
           sib == SiblingsOf(loaded_plugins, plugin)
       IN /\ plugins' = [plugins EXCEPT ![plugin] = [set |-> TRUE, list |-> sib, ref |-> NewList(plugin)]]
          /\ started' = Append(started, [inst |-> plugin, plugins |-> sib,
                                         raised |-> StartRaises(insts[plugin])])
          /\ hpc' = IF StartRaises(insts[plugin]) THEN "aborted" ELSE hpc
    /\ idx' = idx + 1
    /\ UNCHANGED <<status, plugin_files, loaded_plugins, insts, docks, menu, subs>>
    /\ UNCHANGED wvars
    /\ UNCHANGED plugin_dir

\* what a plugin may do to the list it finds in self.plugins
ListEdits == {"pop", "append"}
EditList(l, edit, plugin) ==
    IF edit = "pop" THEN SubSeq(l, 1, Len(l) - 1) ELSE Append(l, plugin)

\* the lists that no longer are what start_plugins handed out
Mutated ==
    {q \in 1..Len(plugins) :
        /\ plugins[q].set
        /\ \E k \in 1..Len(started) : started[k].inst = q /\ started[k].plugins # plugins[q].list}

\* a plugin changes the list in its .plugins attribute in place, in start()
\* or later: every name bound to that list object shows the change
MutateSiblings ==
    /\ Cardinality(Mutated) < MaxMutations
    /\ \E p \in 1..Len(plugins), edit \in ListEdits :
          /\ plugins[p].set
          /\ edit = "pop" => plugins[p].list # <<>>
          /\ plugins' = [q \in 1..Len(plugins) |->
                            IF plugins[q].set /\ plugins[q].ref = plugins[p].ref
                            THEN [plugins[q] EXCEPT !.list = EditList(@, edit, p)]
                            ELSE plugins[q]]
          /\ loaded_plugins' = IF plugins[p].ref = MasterList
                               THEN EditList(loaded_plugins, edit, p)
                               ELSE loaded_plugins
    /\ UNCHANGED <<hpc, idx, status, plugin_files, insts, started, docks, menu, subs>>
    /\ UNCHANGED wvars
    /\ UNCHANGED plugin_dir

\* the running loop is exhausted: start goes on with its next call
PhaseLength ==
    CASE hpc = "load" -> Len(status)
      [] hpc = "instantiate" -> Len(plugin_files)
      [] OTHER -> Len(loaded_plugins)

NextPhase ==
    CASE hpc = "load" -> "instantiate"
      [] hpc = "instantiate" -> "add_view"
      [] hpc = "add_view" -> "start_plugins"
      [] OTHER -> "done"

PhaseDone ==
    /\ hpc \in {"load", "instantiate", "add_view", "start_plugins"}
    /\ idx > PhaseLength
    /\ hpc' = NextPhase
    /\ idx' = 1
    /\ UNCHANGED <<status, plugin_files, loaded_plugins, insts, plugins, started, docks, menu, subs>>
    /\ UNCHANGED wvars
    /\ UNCHANGED plugin_dir

\* a plugin is constructed on the main window on its own, as the tests of the
\* plugin base classes do
ConstructPlugin ==
    /\ Len(subs) < MaxListeners
    /\ hpc = "idle"
    /\ \E cls \in PluginClasses :
          /\ insts' = Append(insts, NewInstance(0, cls, <<"Tool">>))
          /\ subs' = register_plugin(subs, Len(insts) + 1, cls)
          /\ plugins' = Append(plugins, [set |-> FALSE, list |-> <<>>, ref |-> NoList])
    /\ call' = Call("construct", NoFPO, FALSE)
    /\ emitted' = <<>>
    /\ delivered' = <<>>
    /\ UNCHANGED <<hpc, idx, status, plugin_files, loaded_plugins, started, docks, menu>>
    /\ UNCHANGED <<fs, fsEdits, objs, curr_file_paths, primary_sel, secondary_sel,
                   curr_folder_path, watcher>>
    /\ UNCHANGED plugin_dir
    /\ UNCHANGED seen

\* get_all_files called on a constructed plugin, with None or with a list of
\* entry objects, current or not
GetAllFiles ==
    /\ insts # <<>>
    /\ hpc = "idle"
    /\ \E given \in BOOLEAN, excluded \in SUBSET (1..Len(objs)) :
          /\ ~given => excluded = {}
          /\ call' = [Call("get_all_files", NoFPO, FALSE) EXCEPT
                         !.given = given, !.excluded = excluded,
                         !.returned = get_all_files(WidgetState, given, excluded)]
    /\ emitted' = <<>>
    /\ delivered' = <<>>
    /\ UNCHANGED <<fs, fsEdits, objs, curr_file_paths, primary_sel, secondary_sel,
                   curr_folder_path, watcher>>
    /\ UNCHANGED hvars
    /\ UNCHANGED seen

\* the directories the session can start from
InitialFs ==
    { [p \in Paths |-> IF p \in files THEN FileNode ELSE NoNode] :
        files \in { {}, {<<"w", NameA>>, <<"w", NameB>>, <<"w", NameC>>, <<"x", NameA>>} } }
    \cup { [p \in Paths |-> CASE p = <<"w", NameA>> -> FileNode
                              [] p = <<"w", NameB>> -> LinkNode(<<"x", NameB>>)
                              [] p = <<"x", NameA>> -> FileNode
                              [] OTHER -> NoNode] }

WInit ==
    /\ fs \in InitialFs
    /\ fsEdits = 0
    /\ objs = <<>>
    /\ curr_file_paths = <<>>
    /\ primary_sel = NoFPO
    /\ secondary_sel = NoFPO
    /\ curr_folder_path = ""
    /\ watcher = ""
    /\ call = Call("init", NoFPO, FALSE)
    /\ emitted = <<>>
    /\ delivered = <<>>
    /\ seen = <<>>

HInit ==
    /\ hpc = "idle"
    /\ idx = 1
    /\ status = <<>>
    /\ plugin_files = <<>>
    /\ loaded_plugins = <<>>
    /\ insts = <<>>
    /\ plugins = <<>>
    /\ started = <<>>
    /\ docks = <<>>
    /\ menu = <<>>
    /\ plugin_dir = [exists |-> FALSE, files |-> {}, found |-> <<>>]
    /\ subs = <<>>

Init == WInit /\ HInit

\* the file list widget on its own: selections, reconciles, directory changes
Next == \/ SetPrimary
        \/ SetSecondary
        \/ UpdateFile
        \/ SetWatchedDirectory
        \/ FsChange

Spec == Init /\ [][Next]_vars

\* the start-up of the host
NextHost == \/ HostStart
            \/ LoadStep
            \/ InstantiateStep
            \/ AddToViewStep
            \/ StartStep
            \/ PhaseDone

SpecHost == Init /\ [][NextHost]_vars

\* the file list widget with plugins connected to its selection signals
NextBus == \/ ConstructPlugin
           \/ SetWatchedDirectory
           \/ SetPrimary
           \/ SetSecondary
           \/ UpdateFile

SpecBus == Init /\ [][NextBus]_vars

\* plugins reading the registry of a widget whose directory changes
NextFiles == \/ ConstructPlugin
             \/ SetWatchedDirectory
             \/ FsChange
             \/ UpdateFile
             \/ GetAllFiles

SpecFiles == Init /\ [][NextFiles]_vars

\* the host when start is called a second time
NextRestart == \/ NextHost
               \/ HostRestart

SpecRestart == Init /\ [][NextRestart]_vars

\* the start-up of the host with plugins that edit their sibling list
NextSiblings == \/ NextHost
                \/ MutateSiblings

SpecSiblings == Init /\ [][NextSiblings]_vars

\* the file list widget when the watched directory is set more than once
NextRewatch == \/ Rewatch
               \/ SetPrimary
               \/ SetSecondary
               \/ UpdateFile

SpecRewatch == Init /\ [][NextRewatch]_vars

\* ------------------------------------------------------------------ claims
Setters == {"set_primary", "set_secondary"}
\* the slot a setter assigns, and the signal it emits
SlotOf(op) == IF op = "set_primary" THEN "primary" ELSE "secondary"
SignalOf(op) == IF op = "set_primary" THEN "primarySelectionChanged" ELSE "secondarySelectionChanged"
Terminal == hpc \in {"done", "aborted"}
StartedInsts == {started[k].inst : k \in 1..Len(started)}
Candidates == 1..Len(status)

\* C1: after any sequence of selection setter calls (with entry objects,
\* labels or paths) and directory reconciles, the primary slot and the
\* secondary slot never hold the same entry.
C1_SlotsDiffer == ~(primary_sel # NoFPO /\ primary_sel = secondary_sel)

\* C1 witness: a reconcile has run with both slots set beforehand by setters
W_C1 ==
    /\ call.op = "update_file"
    /\ primary_sel # NoFPO
    /\ secondary_sel # NoFPO
    /\ Len(curr_file_paths) >= 2

\* C2: no start() is invoked while a discovered candidate is still waiting to
\* be loaded or constructed: the instantiation pass is over before the first
\* start() call.
C2_InstantiateBeforeStart ==
    started # <<>> => \A c \in Candidates : status[c] \notin {"discovered", "loaded"}

\* C2 witness: a first start() call, after a pass in which one candidate
\* failed in its constructor and two were built
W_C2 ==
    /\ Len(started) = 1
    /\ Len(loaded_plugins) = 2
    /\ \E c \in Candidates : status[c] = "ctor_failed"

\* C3 (as claimed): when one plugin's start() has raised, start() has still
\* been invoked on every instantiated plugin and each has its sibling list,
\* once the host's start-up has ended.
C3_StartFailureIsolated ==
    (Terminal /\ \E k \in 1..Len(started) : started[k].raised)
        => \A p \in Range(loaded_plugins) : p \in StartedInsts /\ plugins[p].set

\* C4 (as claimed): with every candidate loadable and exactly one failing in
\* its constructor, the host ends with N-1 instances, each started and each
\* with N-2 siblings, none of them the failed candidate.
C4_OneConstructorFailure ==
    (/\ Terminal
     /\ Len(status) >= 1
     /\ \A c \in Candidates : status[c] \in {"instantiated", "ctor_failed"}
     /\ Cardinality({c \in Candidates : status[c] = "ctor_failed"}) = 1)
        => /\ Len(loaded_plugins) = Len(status) - 1
           /\ \A p \in Range(loaded_plugins) :
                  /\ p \in StartedInsts
                  /\ plugins[p].set
                  /\ Len(plugins[p].list) = Len(status) - 2
                  /\ \A q \in Range(plugins[p].list) : status[insts[q].cand] # "ctor_failed"

\* C5 (as claimed): when the import of one candidate has failed, every other
\* discovered candidate has still gone through loading and instantiation, and
\* every instance built has been started, once the host's start-up has ended.
C5_ImportFailureSkipped ==
    (Terminal /\ \E c \in Candidates : status[c] = "import_failed")
        => /\ \A c \in Candidates : status[c] \notin {"discovered", "loaded"}
           /\ \A p \in Range(loaded_plugins) : p \in StartedInsts

\* C6 (as claimed): when a loaded module lacks the attribute named like its
\* file, every other candidate has still been instantiated and every instance
\* built has been started, once the host's start-up has ended.
C6_MissingEntryPointSkipped ==
    (Terminal /\ \E c \in Candidates : status[c] = "entry_missing")
        => /\ \A c \in Candidates : status[c] \notin {"discovered", "loaded"}
           /\ \A p \in Range(loaded_plugins) : p \in StartedInsts

\* position of an instance in the host's instance list
PosIn(lp, p) == CHOOSE i \in 1..Len(lp) : lp[i] = p

\* C7: the sibling list an instance has when its start() is invoked holds
\* every other instantiated instance and not the instance itself, in
\* instantiation order; an instance with the same identifier is still in it.
C7_SiblingsByIdentity ==
    \A k \in 1..Len(started) :
        LET p == started[k].inst
            sib == started[k].plugins
        IN /\ plugins[p].set /\ plugins[p].list = sib
           /\ p \notin Range(sib)
           /\ Range(sib) = Range(loaded_plugins) \ {p}
           /\ Len(sib) = Len(loaded_plugins) - 1
           /\ \A i, j \in 1..Len(sib) :
                  i < j => PosIn(loaded_plugins, sib[i]) < PosIn(loaded_plugins, sib[j])
           /\ \A q \in Range(loaded_plugins) :
                  (q # p /\ insts[q].identifier = insts[p].identifier) => q \in Range(sib)

\* C7 witness: a started instance with two siblings, one of them with its
\* own identifier
W_C7 ==
    \E k \in 1..Len(started) :
        /\ Len(started[k].plugins) = 2
        /\ \E q \in Range(started[k].plugins) :
              insts[q].identifier = insts[started[k].inst].identifier

\* C8: a setter given the entry that is in the other slot empties that slot,
\* puts the entry in its own slot and emits its own signal once, with the
\* entry's path, and no signal of the other slot.
C8_TakesOverFromOtherSlot ==
    [][ (/\ call'.op \in Setters
         /\ call'.bc
         /\ call'.tgt # NoFPO
         /\ call'.tgt = (IF call'.op = "set_primary" THEN secondary_sel ELSE primary_sel))
        => /\ primary_sel' = (IF call'.op = "set_primary" THEN call'.tgt ELSE NoFPO)
           /\ secondary_sel' = (IF call'.op = "set_primary" THEN NoFPO ELSE call'.tgt)
           /\ emitted' = <<Event(SignalOf(call'.op), objs[call'.tgt].file_path)>> ]_vars

\* C8 witness: set_secondary_selection was given the primary entry
W_C8 ==
    /\ call.op = "set_secondary"
    /\ call.was = "primary"
    /\ call.bc
    /\ secondary_sel = call.tgt
    /\ primary_sel = NoFPO

\* C9: a setter given the entry its slot already holds emits nothing and
\* leaves both slots as they are; so the same setter called twice in a row
\* for the same entry emits one signal in total, as an object or as a label.
C9_SameEntryIsNoOp ==
    [][ /\ (/\ call'.op \in Setters
            /\ call'.tgt # NoFPO
            /\ call'.tgt = (IF call'.op = "set_primary" THEN primary_sel ELSE secondary_sel))
           => /\ emitted' = <<>>
              /\ primary_sel' = primary_sel
              /\ secondary_sel' = secondary_sel
              /\ ~call'.raised
        /\ (/\ call'.op \in Setters
            /\ call.op = call'.op
            /\ call'.tgt # NoFPO
            /\ call.tgt = call'.tgt
            /\ call.bc
            /\ call.was # SlotOf(call.op))
           => Len(emitted) + Len(emitted') = 1 ]_vars

\* C9 witness: set_primary_selection was called for the entry that was
\* primary already
W_C9 ==
    /\ call.op = "set_primary"
    /\ call.was = "primary"
    /\ call.tgt # NoFPO
    /\ primary_sel = call.tgt
    /\ secondary_sel # NoFPO

\* C10: a setter given a registry entry that its slot does not hold puts the
\* entry in the slot, in place of the one that was there, and emits its own
\* signal exactly once, carrying that entry's path.
C10_ReplacesAndEmitsOnce ==
    [][ (/\ call'.op \in Setters
         /\ call'.bc
         /\ call'.tgt \in Range(curr_file_paths)
         /\ call'.tgt # (IF call'.op = "set_primary" THEN primary_sel ELSE secondary_sel))
        => /\ (IF call'.op = "set_primary" THEN primary_sel' ELSE secondary_sel') = call'.tgt
           /\ emitted' = <<Event(SignalOf(call'.op), objs[call'.tgt].file_path)>> ]_vars

\* C10 witness: set_primary_selection put a second entry where the symlinked
\* entry was not, with the secondary slot set
W_C10 ==
    /\ call.op = "set_primary"
    /\ call.was = "none"
    /\ call.bc
    /\ primary_sel = call.tgt
    /\ call.tgt \in Range(curr_file_paths)
    /\ secondary_sel # NoFPO
    /\ emitted = <<Event("primarySelectionChanged", objs[primary_sel].file_path)>>

\* the payloads of one signal among the signals of an operation
Payloads(em, sig) == {em[k].arg : k \in {i \in 1..Len(em) : em[i].sig = sig}}
\* the paths of the registry's entries
RegistryPaths == {objs[curr_file_paths[i]].file_path : i \in 1..Len(curr_file_paths)}
\* the matching files a scan of the watched directory finds
Scanned == {p \in ScanFiles(fs, watcher) : IsFile(fs, p)}
\* the path a file entry made for p is known by
EntryPath(p) == RealPath(fs, p)
\* the path of the watched directory a registry entry was made from
OriginOf(id) == Join(watcher, objs[id].label)

\* C11 (as claimed): a reconcile completes, publishes fileAdded for exactly
\* the scanned files that have no registry entry and fileRemoved for exactly
\* the registry paths no scanned file has, and leaves the registry with
\* exactly the paths of the scanned files.
C11_ReconcilePublishesDelta ==
    [][ call'.op = "update_file"
        => /\ ~call'.raised
           /\ Payloads(emitted', "fileAdded")
                 = {p \in Scanned : EntryPath(p) \notin RegistryPaths}
           /\ Payloads(emitted', "fileRemoved")
                 = RegistryPaths \ {EntryPath(p) : p \in Scanned}
           /\ RegistryPaths' = {EntryPath(p) : p \in Scanned} ]_vars

\* C12 (as claimed): when the file the primary entry was made from is gone
\* from the watched directory, the reconcile that follows leaves the primary
\* slot empty.
C12_RemovedPrimaryCleared ==
    [][ (/\ call'.op = "update_file"
         /\ primary_sel \in Range(curr_file_paths)
         /\ fs[OriginOf(primary_sel)].kind = "none")
        => primary_sel' = NoFPO ]_vars

\* the entries a step takes out of the registry
Dropped == Range(curr_file_paths) \ Range(curr_file_paths')

C14_SlotsHoldRegistryEntries ==
    /\ primary_sel \in {NoFPO} \cup Range(curr_file_paths)
    /\ secondary_sel \in {NoFPO} \cup Range(curr_file_paths)

\* C15 (as claimed): a setter given a label or path that names no registry
\* entry ends with an error, leaves both slots as they were and emits
\* nothing, whether or not the slots were set.
C15_UnknownSelectionSignalled ==
    [][ (call'.op \in Setters /\ call'.tgt = NoFPO)
        => /\ call'.raised
           /\ primary_sel' = primary_sel
           /\ secondary_sel' = secondary_sel
           /\ emitted' = <<>> ]_vars

\* the registry entries made from a symlink of the watched directory that
\* now leads to another existing file
Retargeted ==
    {e \in Range(curr_file_paths) :
        /\ IsLink(fs, OriginOf(e))
        /\ IsFile(fs, OriginOf(e))
        /\ objs[e].file_path[1] # watcher
        /\ objs[e].file_path # RealPath(fs, OriginOf(e))}

\* C16 (as claimed): the reconcile after a watched symlink was given another
\* target removes the entry with the old resolved path, publishing
\* fileRemoved, and registers an entry with the new resolved path, publishing
\* fileAdded.
C16_RetargetedLinkIsRemoveThenAdd ==
    [][ call'.op = "update_file"
        => \A e \in Retargeted :
              /\ e \notin Range(curr_file_paths')
              /\ objs[e].file_path \in Payloads(emitted', "fileRemoved")
              /\ Payloads(emitted', "fileAdded") # {}
              /\ \E n \in Range(curr_file_paths') :
                    /\ objs'[n].label = objs[e].label
                    /\ objs'[n].file_path = RealPath(fs, OriginOf(e)) ]_vars

\* C17: an entry made from a symlink has the path the link led to when the
\* entry was made, an entry made from a regular file has the path it was made
\* with, the label is in both cases the base name of the path the entry was
\* made from, and no later step changes an entry.
C17_EntryPathFixedAtCreation ==
    [][ /\ Len(objs') >= Len(objs)
        /\ \A i \in 1..Len(objs) : objs'[i] = objs[i]
        /\ \A i \in (Len(objs) + 1)..Len(objs') :
              LET p == Join(curr_folder_path', objs'[i].label)
              IN /\ p \in ScanFiles(fs, curr_folder_path')
                 /\ objs'[i].file_path = (IF fs[p].kind = "link" THEN fs[p].to ELSE p) ]_vars

\* C17 witness: the registry holds an entry made from a regular file and an
\* entry made from a symlink that leads elsewhere by now
W_C17 ==
    /\ watcher # ""
    /\ \E e, r \in Range(curr_file_paths) :
          /\ objs[e].file_path[1] # watcher
          /\ fs[OriginOf(e)] # LinkNode(objs[e].file_path)
          /\ objs[r].file_path = OriginOf(r)

SelectionSignals == {"primarySelectionChanged", "secondarySelectionChanged"}
\* the slot invocations made for one event, and those made on one plugin
DeliveriesOf(ev) == SelectSeq(delivered, LAMBDA d : d.ev = ev)
ReceivedBy(id) == SelectSeq(delivered, LAMBDA d : d.to = id)
\* the selection signals of the last operation, in the order of the emits
Published == SelectSeq(emitted, LAMBDA e : e.sig \in SelectionSignals)

\* C19: when a setter has returned, each selection signal it emitted has been
\* delivered to every connected plugin, once each, in the order in which the
\* plugins were constructed.
C19_DeliveredInSubscriptionOrder ==
    \A k \in 1..Len(Published) :
        LET rec == DeliveriesOf(Published[k])
        IN /\ Len(rec) = Len(subs)
           /\ {rec[i].to : i \in 1..Len(rec)} = {subs[i].id : i \in 1..Len(subs)}
           /\ \A i, j \in 1..Len(rec) : i < j => rec[i].to < rec[j].to

\* C19 witness: a setter's signal went to two plugins
W_C19 ==
    /\ call.op \in Setters
    /\ Len(subs) = 2
    /\ Len(Published) = 1
    /\ Len(delivered) = 2
    /\ delivered[1].to = 1
    /\ delivered[2].to = 2

\* C20 (as claimed): each connected plugin has received the selection signals
\* of an operation once each and in the order they were emitted, also when a
\* slot called a setter itself.
C20_ReceivedInPublicationOrder ==
    \A i \in 1..Len(subs) :
        LET rec == ReceivedBy(subs[i].id)
        IN [k \in 1..Len(rec) |-> rec[k].ev] = Published

\* C21 (as claimed): once set_watched_directory(d) has returned, the registry
\* holds one entry for each matching file directly inside d and no entry
\* made in a directory watched before.
C21_InitializeClearsPriorState ==
    [][ (call'.op = "set_watched_directory" /\ ~call'.raised)
        => /\ Len(curr_file_paths') = Cardinality(ScanFiles(fs, curr_folder_path'))
           /\ \A p \in ScanFiles(fs, curr_folder_path') :
                 \E e \in Range(curr_file_paths') :
                    /\ objs'[e].label = Basename(p)
                    /\ objs'[e].file_path = RealPath(fs, p) ]_vars

\* C22: set_watched_directory on a path that does not exist or is no
\* directory ends with an error, registers nothing and publishes nothing (the
\* scan is not tried again), and leaves no watcher on that path.
C22_InvalidDirectoryFails ==
    [][ (call'.op = "set_watched_directory" /\ curr_folder_path' \notin Dirs)
        => /\ call'.raised
           /\ watcher' # curr_folder_path'
           /\ watcher' = watcher
           /\ curr_file_paths' = curr_file_paths
           /\ emitted' = <<>> ]_vars

\* C22 witness: a directory is watched and a later set_watched_directory on
\* a path that is no directory has failed
W_C22 ==
    /\ call.op = "set_watched_directory"
    /\ call.raised
    /\ curr_folder_path \in InvalidDirs
    /\ watcher \in Dirs
    /\ curr_file_paths # <<>>

\* the directory scanned by the operation that has just run
ScannedDir == IF call'.op = "update_file" THEN watcher ELSE curr_folder_path'

\* C23 (as claimed): when a name found by the scan of an initialise or a
\* reconcile cannot become an entry (here a directory with an image name, no
\* symbolic link involved), every file of the same scan is registered after
\* the operation and every entry whose file is gone has been removed.
C23_BadNameIsolated ==
    [][ (/\ call'.op \in {"set_watched_directory", "update_file"}
         /\ ScannedDir \in Dirs
         /\ \A p \in Paths : fs[p].kind # "link"
         /\ \E p \in ScanFiles(fs, ScannedDir) : ~IsFile(fs, p))
        => /\ \A p \in ScanFiles(fs, ScannedDir) :
                 IsFile(fs, p) => \E e \in Range(curr_file_paths') : objs'[e].file_path = p
           /\ call'.op = "update_file"
                 => \A e \in Range(curr_file_paths) :
                       objs[e].file_path \notin ScanFiles(fs, watcher)
                          => e \notin Range(curr_file_paths') ]_vars

\* the titles from the menu bar down to the node k of the menu
RECURSIVE TitlePath(_)
TitlePath(k) == IF k = MenuBar THEN <<>> ELSE Append(TitlePath(menu[k].parent), menu[k].title)
MenuGroups == {k \in 1..Len(menu) : menu[k].kind = "menu"}
MenuLeaves == {k \in 1..Len(menu) : menu[k].kind = "action"}

\* C24: every attached action is a leaf whose groups, from the menu bar down,
\* are the parts of its identifier before the last one (none for an
\* identifier without "/"); a group exists once under its parent however
\* many identifiers name it, and only because some leaf lies below it.
C24_ActionsNestedByIdentifier ==
    /\ \A k \in MenuLeaves : TitlePath(k) = insts[menu[k].inst].identifier
    /\ \A k \in MenuLeaves : Len(insts[menu[k].inst].identifier) = 1 => menu[k].parent = MenuBar
    /\ \A g, h \in MenuGroups : TitlePath(g) = TitlePath(h) => g = h
    /\ \A g \in MenuGroups : \E k \in MenuLeaves :
          Len(TitlePath(k)) > Len(TitlePath(g))
             /\ SubSeq(TitlePath(k), 1, Len(TitlePath(g))) = TitlePath(g)
    /\ \A k, l \in MenuLeaves : menu[k].inst = menu[l].inst => k = l

\* C24 witness: File/Export/CSV and File/Export/JSON are attached, with one
\* File group, one Export group in it and both leaves in Export, and an
\* action without "/" sits on the menu bar
W_C24 ==
    /\ \E k, l \in MenuLeaves :
          /\ TitlePath(k) = <<"File", "Export", "CSV">>
          /\ TitlePath(l) = <<"File", "Export", "JSON">>
          /\ menu[k].parent = menu[l].parent
    /\ \E k \in MenuLeaves : TitlePath(k) = <<"Tool">> /\ menu[k].parent = MenuBar
    /\ Cardinality(MenuGroups) = 2

\* the instances that have got their dock panel or their menu action
Attached == Range(docks) \cup {menu[k].inst : k \in MenuLeaves}

\* C25 (as claimed): an instance is put into the window once, as dock panel
\* or as menu action according to its variant, and only when its start() has
\* been invoked.
C25_AttachedOnceAfterStart ==
    /\ \A i, j \in 1..Len(docks) : docks[i] = docks[j] => i = j
    /\ \A k, l \in MenuLeaves : menu[k].inst = menu[l].inst => k = l
    /\ \A p \in Range(docks) : insts[p].kind = "Widget"
    /\ \A k \in MenuLeaves : insts[menu[k].inst].kind = "Action"
    /\ \A p \in Attached : p \in StartedInsts

\* C26: when a plugin edits the list in its .plugins attribute, the list of
\* no other instance changes and the host's loaded_plugins does not change.
C26_SiblingListsIndependent ==
    [][ (idx' = idx /\ hpc' = hpc /\ plugins' # plugins)
        => /\ loaded_plugins' = loaded_plugins
           /\ Cardinality({q \in 1..Len(plugins) : plugins'[q] # plugins[q]}) = 1 ]_vars

\* C26 witness: one of two started plugins has edited its list, the list of
\* the other, which names the first, is as it was handed out
W_C26 ==
    \E p, q \in Range(loaded_plugins) :
       /\ p # q
       /\ plugins[p].set /\ plugins[q].set
       /\ p \in Mutated /\ q \notin Mutated
       /\ q \in StartedInsts
       /\ p \in Range(plugins[q].list)

\* the instances a selection signal emitted in this state is delivered to
Receivers ==
    LET st == emit(WidgetState, fs, Event("primarySelectionChanged", NoPath))
    IN {st.delivered[k].to : k \in 1..Len(st.delivered)}
FailedCandidates ==
    {c \in Candidates : status[c] \in {"import_failed", "entry_missing", "ctor_failed"}}

\* C27 (as claimed): an instance of a candidate whose load or construction
\* has failed is in no instance list and no sibling list, is never started,
\* never attached, and is no receiver of a selection signal.
C27_FailedCandidateExcluded ==
    \A p \in 1..Len(insts) :
       insts[p].cand \in FailedCandidates
          => /\ p \notin Range(loaded_plugins)
             /\ \A q \in 1..Len(plugins) : p \notin Range(plugins[q].list)
             /\ \A k \in 1..Len(started) : p \notin Range(started[k].plugins)
             /\ p \notin StartedInsts
             /\ p \notin Attached
             /\ p \notin Receivers

\* the plugin method that bears the name of a selection signal
HandlerOf(sig) ==
    IF sig = "primarySelectionChanged" THEN "primary_selection_changed"
    ELSE "secondary_selection_changed"

\* the slots of plugin p that the operation that has just run invoked
InvokedOn(p) == {delivered'[k].slot : k \in {j \in 1..Len(delivered') : delivered'[j].to = p}}

\* C28: for every constructed plugin, a set_primary_selection call (default
\* broadcast) that changes the primary slot invokes the plugin's
\* primary_selection_changed, a set_secondary_selection call that changes the
\* secondary slot its secondary_selection_changed; each slot is only ever
\* invoked for the signal of its name, and no start() is invoked.
C28_SubscribedToBothChannels ==
    [][ (call'.op \in Setters /\ call'.bc)
        => /\ \A p \in 1..Len(insts) :
                 /\ (call'.op = "set_primary" /\ primary_sel' # primary_sel)
                       => "primary_selection_changed" \in InvokedOn(p)
                 /\ (call'.op = "set_secondary" /\ secondary_sel' # secondary_sel)
                       => "secondary_selection_changed" \in InvokedOn(p)
           /\ \A k \in 1..Len(delivered') :
                 delivered'[k].slot = HandlerOf(delivered'[k].ev.sig)
           /\ \A p \in 1..Len(insts) :
                 Cardinality({k \in 1..Len(delivered') : delivered'[k].to = p})
                    = Len(emitted')
           /\ started' = started ]_vars

\* C28 witness: two plugins are constructed and a change of the primary
\* selection has invoked primary_selection_changed, and nothing else, on both
W_C28 ==
    /\ Len(insts) = 2
    /\ call.op = "set_primary"
    /\ Len(emitted) = 1
    /\ Len(delivered) = 2
    /\ \A k \in 1..2 : delivered[k].to = k /\ delivered[k].slot = "primary_selection_changed"

\* C29: what get_all_files has returned is the registry without the entries
\* of excluded, each once and in the order of the registry; with None or an
\* empty list it is the whole registry; an entry that a reconcile has taken
\* out of the registry is not in it.
C29_AllFilesMinusExcluded ==
    call.op = "get_all_files"
       => LET r == call.returned
          IN /\ Range(r) = Range(curr_file_paths) \ call.excluded
             /\ \A i, j \in 1..Len(r) :
                   i < j => PosIn(curr_file_paths, r[i]) < PosIn(curr_file_paths, r[j])
             /\ (~call.given \/ call.excluded = {}) => r = curr_file_paths
             /\ \A e \in 1..Len(objs) : e \notin Range(curr_file_paths) => e \notin Range(r)

\* C29 witness: a reconcile has removed an entry, and get_all_files with a
\* list holding that entry and a registered one has returned the rest
W_C29 ==
    /\ call.op = "get_all_files"
    /\ call.given
    /\ \E e \in call.excluded : e \notin Range(curr_file_paths)
    /\ \E e \in call.excluded : e \in Range(curr_file_paths)
    /\ call.returned # <<>>

\* C30: what the discovery found are the py files in the plugin directory
\* and below it, in ascending order of base name, nothing when the directory
\* does not exist; the modules are loaded and the instances constructed in
\* that order, so loaded_plugins is in ascending order of file base name.
C30_DiscoveryOrderedByBaseName ==
    LET found == plugin_dir.found
        BaseOf(p) == found[insts[p].cand].base
    IN /\ Range(found) = {f \in plugin_dir.files : f.ext = "py"}
       /\ \A i, j \in 1..Len(found) : i < j => found[i].base < found[j].base
       /\ ~plugin_dir.exists => found = <<>>
       /\ Len(status) = Len(found)
       /\ \A i, j \in 1..Len(plugin_files) : i < j => plugin_files[i] < plugin_files[j]
       /\ \A i, j \in 1..Len(loaded_plugins) :
             i < j => BaseOf(loaded_plugins[i]) < BaseOf(loaded_plugins[j])

\* C30 witness: three plugins are constructed, the second from a file of a
\* directory below the plugin directory, which os.walk yields last
W_C30 ==
    /\ hpc = "done"
    /\ Len(loaded_plugins) = 3
    /\ plugin_dir.found[2].dir = "sub"
    /\ insts[loaded_plugins[2]].cand = 2
    /\ \E f \in plugin_dir.files : f.ext # "py"

\* C31 (as claimed): when an initialise or a reconcile adds a file whose
\* label is the label of an entry already in the registry, the registry
\* afterwards holds under that label a new entry, made for the added file.
C31_LastWriteWins ==
    [][ (/\ call'.op \in {"set_watched_directory", "update_file"}
         /\ ~call'.raised
         /\ ScannedDir \in Dirs)
        => \A p \in ScanFiles(fs, ScannedDir) \ RegistryPaths :
              (\E e \in Range(curr_file_paths) : objs[e].label = Basename(p))
                 => \A e \in Range(curr_file_paths') :
                       objs'[e].label = Basename(p)
                          => e > Len(objs) /\ objs'[e].file_path = RealPath(fs, p) ]_vars

\* the number of start() invocations on instance p so far
StartCount(p) == Cardinality({k \in 1..Len(started) : started[k].inst = p})

\* C32 (as claimed): whatever the host is asked to do, a second call of
\* start(dir) included, no instance has start() invoked twice, no candidate
\* has two instances in the instance list, and when start has returned every
\* instance of the list has been started once.
C32_StartedOnce ==
    /\ \A p \in 1..Len(insts) : StartCount(p) <= 1
    /\ \A i, j \in 1..Len(loaded_plugins) :
          insts[loaded_plugins[i]].cand = insts[loaded_plugins[j]].cand => i = j
    /\ hpc = "done" => \A p \in Range(loaded_plugins) : StartCount(p) = 1

\* C33 (as claimed): when start() is invoked on an instance, every other
\* instance of the instance list has its plugins attribute assigned.
C33_SiblingsAssignedBeforeAnyStart ==
    [][ Len(started') > Len(started)
        => \A q \in Range(loaded_plugins) :
              q # started'[Len(started')].inst => plugins'[q].set ]_vars

\* C34 (as claimed): a plugin that keeps the last payload of each selection
\* signal never holds the same file path for the primary and the secondary
\* selection.
C34_ListenerRolesDiffer ==
    \A i \in 1..Len(seen) :
       seen[i].primary # NoPath => seen[i].primary # seen[i].secondary

\* the entries the reconcile that has just run took out of the registry
Removed == Range(curr_file_paths) \ Range(curr_file_paths')

\* C35: a reconcile clears the selection slot of every entry it removes and
\* publishes neither primarySelectionChanged nor secondarySelectionChanged;
\* what it publishes for such a removal is fileRemoved.
C35_RemovalClearsSilently ==
    [][ call'.op = "update_file"
        => /\ primary_sel \in Removed => primary_sel' = NoFPO
           /\ secondary_sel \in Removed => secondary_sel' = NoFPO
           /\ \A k \in 1..Len(emitted') : emitted'[k].sig \in {"fileAdded", "fileRemoved"}
           /\ ({primary_sel, secondary_sel} \cap Removed # {})
                 => \E k \in 1..Len(emitted') : emitted'[k].sig = "fileRemoved" ]_vars

\* C35 witness: a reconcile has removed the entry that was the primary
\* selection; the slot is empty and fileRemoved is all that was published
W_C35 ==
    /\ call.op = "update_file"
    /\ call.prim0 # NoFPO
    /\ call.prim0 \notin Range(curr_file_paths)
    /\ primary_sel = NoFPO
    /\ emitted = <<Event("fileRemoved", objs[call.prim0].file_path)>>

\* C36 (as claimed): a reconcile that follows an initialise or a reconcile
\* with no change of the directory in between publishes nothing and leaves
\* the registry and both selection slots as they are, also when the directory
\* holds symbolic links.
C36_ReconcileIdempotent ==
    [][ (/\ call.op \in {"set_watched_directory", "update_file"}
         /\ ~call.raised
         /\ call'.op = "update_file")
        => /\ ~call'.raised
           /\ emitted' = <<>>
           /\ curr_file_paths' = curr_file_paths
           /\ primary_sel' = primary_sel
           /\ secondary_sel' = secondary_sel ]_vars

\* C37 (as claimed): for every fileAdded(p) a reconcile publishes, an entry
\* with the label and the path of p is registered, from before or by that
\* reconcile; for every fileRemoved(p) it publishes, no registry entry and no
\* selection slot has the path p once the reconcile is over (removals come
\* last, so what is registered then was registered when the signal was
\* emitted).
C37_EventsFollowRegistry ==
    [][ call'.op = "update_file"
        => \A k \in 1..Len(emitted') :
              /\ emitted'[k].sig = "fileAdded"
                    => \E e \in Range(curr_file_paths) \cup ((Len(objs) + 1)..Len(objs')) :
                          /\ objs'[e].label = Basename(emitted'[k].arg)
                          /\ objs'[e].file_path = RealPath(fs, emitted'[k].arg)
              /\ emitted'[k].sig = "fileRemoved"
                    => /\ \A e \in Range(curr_file_paths') :
                             objs'[e].file_path # emitted'[k].arg
                       /\ \A e \in {primary_sel', secondary_sel'} \ {NoFPO} :
                             objs'[e].file_path # emitted'[k].arg ]_vars

\* C38: in what a reconcile publishes, no fileAdded comes after a
\* fileRemoved.
C38_AdditionsBeforeRemovals ==
    [][ call'.op = "update_file"
        => \A i, j \in 1..Len(emitted') :
              (emitted'[i].sig = "fileRemoved" /\ emitted'[j].sig = "fileAdded") => j < i ]_vars

\* C38 witness: one reconcile has published an addition and a removal, of
\* regular files with different names
W_C38 ==
    /\ call.op = "update_file"
    /\ ~call.raised
    /\ Len(emitted) = 2
    /\ emitted[1].sig = "fileAdded"
    /\ emitted[2].sig = "fileRemoved"
    /\ Basename(emitted[1].arg) # Basename(emitted[2].arg)
    /\ \A p \in Paths : fs[p].kind # "link"

\* the paths of existing files a setter can be given
FilePaths == {p \in Paths : p[2] = NameA /\ IsFile(fs, p)}

\* C39 (as claimed): a setter given the path of an existing file selects an
\* entry only if that entry is the registry entry of that path.
C39_PathSelectsItsOwnEntry ==
    \A p \in FilePaths :
       LET prim == set_primary_selection(WidgetState, fs, PathArg(p), TRUE)
           sec == set_secondary_selection(WidgetState, fs, PathArg(p), TRUE)
       IN /\ (~prim.raised /\ prim.prim # primary_sel)
                => objs[prim.prim].file_path = RealPath(fs, p)
          /\ (~sec.raised /\ sec.sec # secondary_sel)
                => objs[sec.sec].file_path = RealPath(fs, p)

====
